---- MODULE Spec2Model ----
(***************************************************************************)
(* Model of agv_server.py: the serial endpoint locator                     *)
(* (find_serial_port), the sensor handle (AGVGuideSensor), the bridge      *)
(* (AGVServer) and the process entry point (main).                         *)
(*                                                                         *)
(* Python strings are modelled as tuples of one-character strings, so      *)
(* that substring search, concatenation and lexical comparison are         *)
(* computed rather than assumed.                                           *)
(***************************************************************************)
EXTENDS Integers, Sequences, FiniteSets, TLC

\* ------------------------------------------------------------------ bounds
\* longest serial enumeration the operating system hands back
MaxPorts == 3
\* number of request events the transport delivers in one run
MaxRequests == 2
\* number of times a holder of a sensor handle closes it
MaxCloses == 2

\* ------------------------------------------------------------- characters
\* code points of the characters used by the model (Python compares str by
\* code point)
Ord(c) ==
    CASE c = " " -> 32
      [] c = "0" -> 48
      [] c = "1" -> 49
      [] c = "2" -> 50
      [] c = "3" -> 51
      [] c = "C" -> 67
      [] c = "M" -> 77
      [] c = "O" -> 79
      [] c = "P" -> 80
      [] c = "X" -> 88
      [] c = "x" -> 120

\* str.__lt__: a proper prefix is smaller, otherwise the first differing
\* code point decides
RECURSIVE StrLess(_, _)
StrLess(a, b) ==
    IF b = <<>> THEN FALSE
    ELSE IF a = <<>> THEN TRUE
    ELSE IF Ord(Head(a)) < Ord(Head(b)) THEN TRUE
    ELSE IF Ord(Head(a)) > Ord(Head(b)) THEN FALSE
    ELSE StrLess(Tail(a), Tail(b))

\* the `in` operator on str: marker occurs as a contiguous substring of s
StrContains(marker, s) ==
    \E i \in 1..(Len(s) - Len(marker) + 1) :
        SubSeq(s, i, i + Len(marker) - 1) = marker

\* --------------------------------------------------------- serial endpoints
COM1 == <<"C", "O", "M", "1">>
COM2 == <<"C", "O", "M", "2">>
COM3 == <<"C", "O", "M", "3">>
COM10 == <<"C", "O", "M", "1", "0">>
PortIds == {COM1, COM2, COM3, COM10}

DescX == <<"X">>
DescCP210x == <<"C", "P", "2", "1", "0", "x">>
DescCP2102 == <<"C", "P", "2", "1", "0", "2">>
DescSpCP210x == <<" ", "C", "P", "2", "1", "0", "x">>
DescSpCP2102 == <<" ", "C", "P", "2", "1", "0", "2">>
Descriptors == {DescX, DescCP210x, DescCP2102, DescSpCP210x, DescSpCP2102}

\* one entry of serial.tools.list_ports.comports(): p[0] is the device id,
\* p[1] the description
PortInfos == PortIds \X Descriptors

RECURSIVE SeqsUpTo(_, _)
SeqsUpTo(S, n) ==
    IF n = 0 THEN {<<>>}
    ELSE LET shorter == SeqsUpTo(S, n - 1)
         IN  shorter \cup {Append(s, x) : s \in {t \in shorter : Len(t) = n - 1}, x \in S}

\* every enumeration the operating system may return, in any order
Enumerations == SeqsUpTo(PortInfos, MaxPorts)

\* the enumeration used as the example of the endpoint filtering property
ExampleEnumeration == << <<COM3, DescX>>, <<COM1, DescCP210x>>, <<COM2, DescCP2102>> >>
\* the same endpoints with a descriptor in which the chip name follows a space
SpacedEnumeration == << <<COM3, DescX>>, <<COM1, DescSpCP210x>>, <<COM2, DescSpCP2102>> >>

\* enumerations the whole-service specification starts from
ServiceEnumerations ==
    { <<>>,
      << <<COM2, DescSpCP2102>> >>,
      << <<COM3, DescX>>, <<COM10, DescSpCP210x>>, <<COM2, DescSpCP2102>> >> }

\* ---------------------------------------------------------- find_serial_port
\* the vendor marker of line 32
VendorMarker == <<" ", "C", "P", "2", "1", "0">>

\* variant: every enumerated endpoint is taken as a candidate
FilterPorts_KeepsAll(ps) == [i \in DOMAIN ps |-> ps[i][1]]

\* [p[0] for p in ports if ' CP210' in p[1]]
RECURSIVE FilterPorts(_)
FilterPorts(ps) ==
    IF ps = <<>> THEN <<>>
    ELSE IF StrContains(VendorMarker, Head(ps)[2])
         THEN <<Head(ps)[1]>> \o FilterPorts(Tail(ps))
         ELSE FilterPorts(Tail(ps))

\* insertion of x into an ascending list, after the elements equal to it
RECURSIVE SortedInsert(_, _)
SortedInsert(x, s) ==
    IF s = <<>> THEN <<x>>
    ELSE IF StrLess(x, Head(s)) THEN <<x>> \o s
    ELSE <<Head(s)>> \o SortedInsert(x, Tail(s))

\* variant: the candidates stay in enumeration order
Sorted_AsEnumerated(s) == s

\* sorted(ports): a stable ascending sort
RECURSIVE Sorted(_)
Sorted(s) ==
    IF s = <<>> THEN <<>>
    ELSE SortedInsert(s[Len(s)], Sorted(SubSeq(s, 1, Len(s) - 1)))

find_serial_port(enumerated) == Sorted(FilterPorts(enumerated))

\* ------------------------------------------------------------ configuration
\* line 78: socketio_request_event_name = "AGVGuideSensor"
socketio_request_event_name ==
    <<"A", "G", "V", "G", "u", "i", "d", "e", "S", "e", "n", "s", "o", "r">>
\* the literal "Response" of line 73
ResponseSuffix == <<"R", "e", "s", "p", "o", "n", "s", "e">>

\* Python's None where an int is expected
None == -1
\* default Modbus id (line 42) and default baud rate (line 45)
DefaultModbusId == 1
DefaultBaudrate == 115200
\* register read by value() (line 53)
ValueRegister == 40
\* values read_register can return for the 16-bit register
Readings == {0, 4660}

\* exit status of an uncaught exception, and of a normal return of main
UncaughtStatus == 1
NormalStatus == 0
\* exit(-1): the status the parent sees is the code reduced to the 8 bits
\* of a process exit status
ExitStatus(code) == code % 256

\* -------------------------------------------------------------------- state
VARIABLES
    comports,    \* what serial.tools.list_ports.comports() returns
    pcMain,      \* position of the main thread
    ports,       \* value returned by find_serial_port() at line 82
    port,        \* main's local `port`
    exitStatus,  \* process exit status, None while the process runs
    sensor,      \* AGVServer.sensor: the AGVGuideSensor and its serial port
    sio,         \* AGVServer.sio_client: "none", "created", "connected", "disconnected"
    handlers,    \* event names registered with sio_client.on
    nameAttr,    \* AGVServer.socketio_request_event_name, <<>> while unset
    arrived,     \* number of request events delivered so far
    task,        \* one handler invocation per delivered request event
    busLog,      \* read_register invocations in the order they were issued,
                 \* each with its outcome once it has one
    emitted,     \* events handed to sio_client.emit, in order
    openArgs,    \* modbus_id and baudrate given to AGVGuideSensor(...)
    openLog,     \* endpoints on which mm.Instrument opened a serial port
    closeLog     \* outcome of each run of AGVGuideSensor.__del__

vars == <<comports, pcMain, ports, port, exitStatus, sensor, sio, handlers,
          nameAttr, arrived, task, busLog, emitted, openArgs, openLog, closeLog>>

Tasks == 1..MaxRequests

NoSensor == [port |-> <<>>, modbus_id |-> None, baudrate |-> None, serial |-> "none"]
\* an AGVGuideSensor whose __init__ raised at line 49: self.inst was never set
NoInstrument == [port |-> <<>>, modbus_id |-> None, baudrate |-> None, serial |-> "noinst"]
NoPayload == [value |-> None]
\* a handler invocation: its position, its locals ret and event_name,
\* whether the service was Ready when its request event was delivered, and
\* whether a read was in flight at that moment
IdleTask == [pc |-> "idle", ret |-> NoPayload, event_name |-> <<>>,
             ready |-> FALSE, busy |-> FALSE]

\* the read_register invocations issued by handler invocation h
ReadsBy(h) == {i \in DOMAIN busLog : busLog[i].task = h}
\* the invocation of h that has not returned or raised yet
PendingRead(h) == CHOOSE i \in ReadsBy(h) : busLog[i].status = "pending"

\* variant: `if not modbus_id` / `if not baudrate` instead of `is None`
AGVGuideSensor_init_Falsy(p, modbus_id, baudrate) ==
    [port |-> p,
     modbus_id |-> IF modbus_id \in {None, 0} THEN DefaultModbusId ELSE modbus_id,
     baudrate |-> IF baudrate \in {None, 0} THEN DefaultBaudrate ELSE baudrate,
     serial |-> "open"]

\* AGVGuideSensor.__init__ (lines 37-50)
AGVGuideSensor_init(p, modbus_id, baudrate) ==
    [port |-> p,
     modbus_id |-> IF modbus_id = None THEN DefaultModbusId ELSE modbus_id,
     baudrate |-> IF baudrate = None THEN DefaultBaudrate ELSE baudrate,
     serial |-> "open"]

\* variant: the response goes out under the request's own name
ResponseEventName_NoSuffix(request) == request

\* line 73: self.socketio_request_event_name + "Response"
ResponseEventName(request) == request \o ResponseSuffix

\* the service is Ready: construction has finished and the transport is up
Ready == pcMain \in {"main87", "wait"} /\ sio = "connected"
\* the interpreter is running threads
ProcessAlive == pcMain \in {"main82", "init62", "init63", "init64", "init65",
                            "init66", "main87", "wait"}

InitCommon ==
    /\ pcMain = "main82"
    /\ ports = <<>>
    /\ port = <<>>
    /\ exitStatus = None
    /\ sensor = NoSensor
    /\ sio = "none"
    /\ handlers = {}
    /\ nameAttr = <<>>
    /\ arrived = 0
    /\ task = [h \in Tasks |-> IdleTask]
    /\ busLog = <<>>
    /\ emitted = <<>>
    /\ openArgs = [modbus_id |-> None, baudrate |-> None]
    /\ openLog = <<>>
    /\ closeLog = <<>>

Init == comports \in ServiceEnumerations /\ InitCommon
InitStartup == comports \in Enumerations /\ InitCommon

\* sub-addresses and link speeds a user of AGVGuideSensor passes, None for
\* an argument left out
ModbusIds == {None, 0, 1, 2}
Baudrates == {None, 9600, 115200}

\* a program that uses AGVGuideSensor directly: it is about to open a handle
\* on some endpoint with some arguments
InitHandle ==
    /\ comports = <<>>
    /\ pcMain = "caller"
    /\ ports = <<>>
    /\ port \in PortIds
    /\ exitStatus = None
    /\ sensor = NoSensor
    /\ sio = "none"
    /\ handlers = {}
    /\ nameAttr = <<>>
    /\ arrived = 0
    /\ task = [h \in Tasks |-> IdleTask]
    /\ busLog = <<>>
    /\ emitted = <<>>
    /\ openArgs \in [modbus_id : ModbusIds, baudrate : Baudrates]
    /\ openLog = <<>>
    /\ closeLog = <<>>

\* --------------------------------------------------------------------- main
\* line 82, a candidate exists: port = find_serial_port()[0]
MainPortFound ==
    /\ pcMain = "main82"
    /\ find_serial_port(comports) # <<>>
    /\ ports' = find_serial_port(comports)
    /\ port' = find_serial_port(comports)[1]
    /\ pcMain' = "init62"
    /\ UNCHANGED <<openArgs, closeLog, openLog>>
    /\ UNCHANGED <<comports, exitStatus, sensor, sio, handlers, nameAttr,
                   arrived, task, busLog, emitted>>

\* variant: the IndexError is swallowed and main goes on without a port
MainNoPort_Continues ==
    /\ pcMain = "main82"
    /\ find_serial_port(comports) = <<>>
    /\ ports' = find_serial_port(comports)
    /\ pcMain' = "init62"
    /\ UNCHANGED <<openArgs, closeLog, openLog>>
    /\ UNCHANGED <<comports, port, exitStatus, sensor, sio, handlers, nameAttr,
                   arrived, task, busLog, emitted>>

\* lines 82-85, no candidate: IndexError, log.fatal, exit(-1)
MainNoPort ==
    /\ pcMain = "main82"
    /\ find_serial_port(comports) = <<>>
    /\ ports' = find_serial_port(comports)
    /\ exitStatus' = ExitStatus(-1)
    /\ pcMain' = "exited"
    /\ UNCHANGED <<openArgs, closeLog, openLog>>
    /\ UNCHANGED <<comports, port, sensor, sio, handlers, nameAttr,
                   arrived, task, busLog, emitted>>

\* ------------------------------------------------------- AGVServer.__init__
\* line 62: self.sensor = AGVGuideSensor(serial_port)
InitSensor ==
    /\ pcMain = "init62"
    /\ sensor' = AGVGuideSensor_init(port, None, None)
    /\ openLog' = Append(openLog, port)
    /\ pcMain' = "init63"
    /\ UNCHANGED <<openArgs, closeLog>>
    /\ UNCHANGED <<comports, ports, port, exitStatus, sio, handlers, nameAttr,
                   arrived, task, busLog, emitted>>

\* line 62, mm.Instrument cannot open the port: the exception leaves
\* __init__ and main uncaught
InitSensorFails ==
    /\ pcMain = "init62"
    /\ sensor' = NoInstrument
    /\ pcMain' = "uncaught"
    /\ exitStatus' = UncaughtStatus
    /\ UNCHANGED <<openArgs, closeLog, openLog>>
    /\ UNCHANGED <<comports, ports, port, sio, handlers, nameAttr,
                   arrived, task, busLog, emitted>>

\* line 63: self.sio_client = socketio.Client()
InitClient ==
    /\ pcMain = "init63"
    /\ sio' = "created"
    /\ pcMain' = "init64"
    /\ UNCHANGED <<openArgs, closeLog, openLog>>
    /\ UNCHANGED <<comports, ports, port, exitStatus, sensor, handlers, nameAttr,
                   arrived, task, busLog, emitted>>

\* line 64: self.sio_client.connect(socketio_server_url)
InitConnect ==
    /\ pcMain = "init64"
    /\ sio' = "connected"
    /\ pcMain' = "init65"
    /\ UNCHANGED <<openArgs, closeLog, openLog>>
    /\ UNCHANGED <<comports, ports, port, exitStatus, sensor, handlers, nameAttr,
                   arrived, task, busLog, emitted>>

\* line 64, the server cannot be reached: connect raises, nothing in
\* __init__ or main catches it and nothing closes self.sensor
InitConnectFails ==
    /\ pcMain = "init64"
    /\ pcMain' = "uncaught"
    /\ exitStatus' = UncaughtStatus
    /\ UNCHANGED <<openArgs, closeLog, openLog>>
    /\ UNCHANGED <<comports, ports, port, sensor, sio, handlers, nameAttr,
                   arrived, task, busLog, emitted>>

\* line 65: self.sio_client.on(socketio_request_event_name, self.sio_handler)
InitOn ==
    /\ pcMain = "init65"
    /\ handlers' = handlers \cup {socketio_request_event_name}
    /\ pcMain' = "init66"
    /\ UNCHANGED <<openArgs, closeLog, openLog>>
    /\ UNCHANGED <<comports, ports, port, exitStatus, sensor, sio, nameAttr,
                   arrived, task, busLog, emitted>>

\* line 66: self.socketio_request_event_name = socketio_request_event_name
InitStoreName ==
    /\ pcMain = "init66"
    /\ nameAttr' = socketio_request_event_name
    /\ pcMain' = "main87"
    /\ UNCHANGED <<openArgs, closeLog, openLog>>
    /\ UNCHANGED <<comports, ports, port, exitStatus, sensor, sio, handlers,
                   arrived, task, busLog, emitted>>

\* lines 87-88: log, then server.sio_client.wait()
MainWait ==
    /\ pcMain = "main87"
    /\ pcMain' = "wait"
    /\ UNCHANGED <<openArgs, closeLog, openLog>>
    /\ UNCHANGED <<comports, ports, port, exitStatus, sensor, sio, handlers,
                   nameAttr, arrived, task, busLog, emitted>>

\* line 88: wait() returns once the transport is disconnected; main returns
MainWaitReturns ==
    /\ pcMain = "wait"
    /\ sio = "disconnected"
    /\ pcMain' = "returned"
    /\ exitStatus' = NormalStatus
    /\ UNCHANGED <<openArgs, closeLog, openLog>>
    /\ UNCHANGED <<comports, ports, port, sensor, sio, handlers, nameAttr,
                   arrived, task, busLog, emitted>>

\* -------------------------------------------------- AGVGuideSensor in use
\* AGVGuideSensor(port, modbus_id, baudrate) called by a program of its own
HandleOpen ==
    /\ pcMain = "caller"
    /\ sensor' = AGVGuideSensor_init(port, openArgs.modbus_id, openArgs.baudrate)
    /\ openLog' = Append(openLog, port)
    /\ pcMain' = "holder"
    /\ UNCHANGED <<comports, ports, port, exitStatus, sio, handlers, nameAttr,
                   arrived, task, busLog, emitted, openArgs, closeLog>>

\* the same call when mm.Instrument cannot open the port (line 49 raises)
HandleOpenFails ==
    /\ pcMain = "caller"
    /\ sensor' = NoInstrument
    /\ pcMain' = "holder"
    /\ UNCHANGED <<comports, ports, port, exitStatus, sio, handlers, nameAttr,
                   arrived, task, busLog, emitted, openArgs, openLog, closeLog>>

\* __del__ can run: the interpreter finalizes the object once after the main
\* thread has ended, a holder may call it up to MaxCloses times
CanDel ==
    \/ pcMain \in {"uncaught", "returned"} /\ closeLog = <<>>
    \/ pcMain = "holder" /\ Len(closeLog) < MaxCloses

\* AGVGuideSensor.__del__ (lines 54-58), self.inst.serial.close() returns:
\* the port is closed, and closing a closed port does nothing
SensorDel ==
    /\ CanDel
    /\ sensor.serial \in {"open", "closed"}
    /\ sensor' = [sensor EXCEPT !.serial = "closed"]
    /\ closeLog' = Append(closeLog, "closed")
    /\ UNCHANGED <<comports, pcMain, ports, port, exitStatus, sio, handlers,
                   nameAttr, arrived, task, busLog, emitted, openArgs, openLog>>

\* variant: __del__ without the try/except of lines 55-58
SensorDelRaises_Propagates ==
    /\ CanDel
    /\ sensor.serial \in {"open", "noinst"}
    /\ \E after \in (IF sensor.serial = "open" THEN {"open", "closed"} ELSE {"noinst"}) :
          sensor' = [sensor EXCEPT !.serial = after]
    /\ closeLog' = Append(closeLog, "escaped")
    /\ UNCHANGED <<comports, pcMain, ports, port, exitStatus, sio, handlers,
                   nameAttr, arrived, task, busLog, emitted, openArgs, openLog>>

\* AGVGuideSensor.__del__ (lines 54-58), line 56 raises: close() fails on the
\* open port, which is then open or closed as the serial library left it,
\* or self.inst does not exist; lines 57-58 swallow the exception
SensorDelRaises ==
    /\ CanDel
    /\ sensor.serial \in {"open", "noinst"}
    /\ \E after \in (IF sensor.serial = "open" THEN {"open", "closed"} ELSE {"noinst"}) :
          sensor' = [sensor EXCEPT !.serial = after]
    /\ closeLog' = Append(closeLog, "swallowed")
    /\ UNCHANGED <<comports, pcMain, ports, port, exitStatus, sio, handlers,
                   nameAttr, arrived, task, busLog, emitted, openArgs, openLog>>

\* -------------------------------------------------------------- environment
\* the transport connection is lost
TransportDisconnect ==
    /\ ProcessAlive
    /\ sio = "connected"
    /\ sio' = "disconnected"
    /\ UNCHANGED <<openArgs, closeLog, openLog>>
    /\ UNCHANGED <<comports, pcMain, ports, port, exitStatus, sensor, handlers,
                   nameAttr, arrived, task, busLog, emitted>>

\* the process is terminated from outside while it serves requests
ProcessShutdown ==
    /\ pcMain = "wait"
    /\ pcMain' = "killed"
    /\ UNCHANGED <<openArgs, closeLog, openLog>>
    /\ UNCHANGED <<comports, ports, port, exitStatus, sensor, sio, handlers,
                   nameAttr, arrived, task, busLog, emitted>>

\* the transport delivers a request event: the dispatcher starts
\* sio_handler for it in a thread of its own (docstring, lines 68-71)
Deliver ==
    /\ ProcessAlive
    /\ sio = "connected"
    /\ socketio_request_event_name \in handlers
    /\ arrived < MaxRequests
    /\ arrived' = arrived + 1
    /\ task' = [task EXCEPT ![arrived + 1] =
                    [IdleTask EXCEPT !.pc = "line72", !.ready = Ready,
                                     !.busy = \E g \in Tasks : task[g].pc = "reading"]]
    /\ UNCHANGED <<openArgs, closeLog, openLog>>
    /\ UNCHANGED <<comports, pcMain, ports, port, exitStatus, sensor, sio,
                   handlers, nameAttr, busLog, emitted>>

\* -------------------------------------------------------------- sio_handler
\* variant: the read waits, without a timeout, until no other read is in flight
HandlerCallValue_Locked(h) ==
    /\ ProcessAlive
    /\ task[h].pc = "line72"
    /\ \A g \in Tasks : task[g].pc # "reading"
    /\ busLog' = Append(busLog, [task |-> h, register |-> ValueRegister,
                                  status |-> "pending", value |-> None])
    /\ task' = [task EXCEPT ![h].pc = "reading"]
    /\ UNCHANGED <<comports, pcMain, ports, port, exitStatus, sensor, sio,
                   handlers, nameAttr, arrived, emitted, openArgs, openLog, closeLog>>

\* variant: every read opens an Instrument of its own on the port
HandlerCallValue_Reopens(h) ==
    /\ ProcessAlive
    /\ task[h].pc = "line72"
    /\ openLog' = Append(openLog, port)
    /\ busLog' = Append(busLog, [task |-> h, register |-> ValueRegister,
                                  status |-> "pending", value |-> None])
    /\ task' = [task EXCEPT ![h].pc = "reading"]
    /\ UNCHANGED <<comports, pcMain, ports, port, exitStatus, sensor, sio,
                   handlers, nameAttr, arrived, emitted, openArgs, closeLog>>

\* line 72 -> line 53: self.sensor.value() issues read_register(0x28)
HandlerCallValue(h) ==
    /\ ProcessAlive
    /\ task[h].pc = "line72"
    /\ busLog' = Append(busLog, [task |-> h, register |-> ValueRegister,
                                  status |-> "pending", value |-> None])
    /\ task' = [task EXCEPT ![h].pc = "reading"]
    /\ UNCHANGED <<openArgs, closeLog, openLog>>
    /\ UNCHANGED <<comports, pcMain, ports, port, exitStatus, sensor, sio,
                   handlers, nameAttr, arrived, emitted>>

\* variant: ret is kept on the server object, shared by all invocations
HandlerReadReturns_SharedRet(h, v) ==
    /\ ProcessAlive
    /\ task[h].pc = "reading"
    /\ busLog' = [busLog EXCEPT ![PendingRead(h)].status = "ok",
                                ![PendingRead(h)].value = v]
    /\ task' = [g \in Tasks |->
                    IF g = h THEN [task[g] EXCEPT !.pc = "line73", !.ret = [value |-> v]]
                    ELSE IF task[g].pc \in {"line73", "line74"}
                         THEN [task[g] EXCEPT !.ret = [value |-> v]]
                         ELSE task[g]]
    /\ UNCHANGED <<comports, pcMain, ports, port, exitStatus, sensor, sio,
                   handlers, nameAttr, arrived, emitted, openArgs, openLog, closeLog>>

\* line 53 returns v; line 72 binds ret = {"value": v}
HandlerReadReturns(h, v) ==
    /\ ProcessAlive
    /\ task[h].pc = "reading"
    /\ busLog' = [busLog EXCEPT ![PendingRead(h)].status = "ok",
                                ![PendingRead(h)].value = v]
    /\ task' = [task EXCEPT ![h].pc = "line73", ![h].ret = [value |-> v]]
    /\ UNCHANGED <<openArgs, closeLog, openLog>>
    /\ UNCHANGED <<comports, pcMain, ports, port, exitStatus, sensor, sio,
                   handlers, nameAttr, arrived, emitted>>

\* variant: a failed read is issued again by the same invocation
HandlerReadRaises_Retries(h) ==
    /\ ProcessAlive
    /\ task[h].pc = "reading"
    /\ busLog' = [busLog EXCEPT ![PendingRead(h)].status = "failed"]
    /\ task' = [task EXCEPT ![h].pc = "line72"]
    /\ UNCHANGED <<openArgs, closeLog, openLog>>
    /\ UNCHANGED <<comports, pcMain, ports, port, exitStatus, sensor, sio,
                   handlers, nameAttr, arrived, emitted>>

\* variant: a failed read is answered like a successful one
HandlerReadRaises_Answers(h) ==
    /\ ProcessAlive
    /\ task[h].pc = "reading"
    /\ busLog' = [busLog EXCEPT ![PendingRead(h)].status = "failed"]
    /\ task' = [task EXCEPT ![h].pc = "line73"]
    /\ UNCHANGED <<openArgs, closeLog, openLog>>
    /\ UNCHANGED <<comports, pcMain, ports, port, exitStatus, sensor, sio,
                   handlers, nameAttr, arrived, emitted>>

\* variant: the exception of a failed read reaches the main thread
HandlerReadRaises_StopsService(h) ==
    /\ ProcessAlive
    /\ task[h].pc = "reading"
    /\ busLog' = [busLog EXCEPT ![PendingRead(h)].status = "failed"]
    /\ task' = [task EXCEPT ![h].pc = "raised"]
    /\ pcMain' = "uncaught"
    /\ exitStatus' = UncaughtStatus
    /\ UNCHANGED <<openArgs, closeLog, openLog>>
    /\ UNCHANGED <<comports, ports, port, sensor, sio,
                   handlers, nameAttr, arrived, emitted>>

\* line 53 raises (timeout, bad frame, closed port): nothing in value() or
\* sio_handler catches, so the exception leaves the handler
HandlerReadRaises(h) ==
    /\ ProcessAlive
    /\ task[h].pc = "reading"
    /\ busLog' = [busLog EXCEPT ![PendingRead(h)].status = "failed"]
    /\ task' = [task EXCEPT ![h].pc = "raised"]
    /\ UNCHANGED <<openArgs, closeLog, openLog>>
    /\ UNCHANGED <<comports, pcMain, ports, port, exitStatus, sensor, sio,
                   handlers, nameAttr, arrived, emitted>>

\* line 73: event_name = self.socketio_request_event_name + "Response";
\* AttributeError while line 66 has not run yet
HandlerEventName(h) ==
    /\ ProcessAlive
    /\ task[h].pc = "line73"
    /\ IF nameAttr = <<>>
       THEN task' = [task EXCEPT ![h].pc = "raised"]
       ELSE task' = [task EXCEPT ![h].pc = "line74",
                                 ![h].event_name = ResponseEventName(nameAttr)]
    /\ UNCHANGED <<openArgs, closeLog, openLog>>
    /\ UNCHANGED <<comports, pcMain, ports, port, exitStatus, sensor, sio,
                   handlers, nameAttr, arrived, busLog, emitted>>

\* variant: a handler that cannot emit drops the registration of the handler
HandlerEmit_Unregisters(h) ==
    /\ ProcessAlive
    /\ task[h].pc = "line74"
    /\ IF sio = "connected"
       THEN /\ emitted' = Append(emitted, [by |-> h, name |-> task[h].event_name,
                                           data |-> task[h].ret])
            /\ task' = [task EXCEPT ![h].pc = "returned"]
            /\ UNCHANGED handlers
       ELSE /\ task' = [task EXCEPT ![h].pc = "raised"]
            /\ handlers' = {}
            /\ UNCHANGED emitted
    /\ UNCHANGED <<comports, pcMain, ports, port, exitStatus, sensor, sio,
                   nameAttr, arrived, busLog, openArgs, openLog, closeLog>>

\* line 74: self.sio_client.emit(event_name, ret); emit raises when the
\* client is not connected
HandlerEmit(h) ==
    /\ ProcessAlive
    /\ task[h].pc = "line74"
    /\ IF sio = "connected"
       THEN /\ emitted' = Append(emitted, [by |-> h, name |-> task[h].event_name,
                                           data |-> task[h].ret])
            /\ task' = [task EXCEPT ![h].pc = "returned"]
       ELSE /\ task' = [task EXCEPT ![h].pc = "raised"]
            /\ UNCHANGED emitted
    /\ UNCHANGED <<openArgs, closeLog, openLog>>
    /\ UNCHANGED <<comports, pcMain, ports, port, exitStatus, sensor, sio,
                   handlers, nameAttr, arrived, busLog>>

\* ------------------------------------------------------------ specifications
StartupNext ==
    \/ MainPortFound
    \/ MainNoPort
    \/ InitSensor
    \/ InitSensorFails
    \/ InitClient
    \/ InitConnect
    \/ InitConnectFails
    \/ InitOn
    \/ InitStoreName
    \/ SensorDel
    \/ SensorDelRaises

Next ==
    \/ StartupNext
    \/ MainWait
    \/ MainWaitReturns
    \/ TransportDisconnect
    \/ ProcessShutdown
    \/ Deliver
    \/ \E h \in Tasks : HandlerCallValue(h)
    \/ \E h \in Tasks, v \in Readings : HandlerReadReturns(h, v)
    \/ \E h \in Tasks : HandlerReadRaises(h)
    \/ \E h \in Tasks : HandlerEventName(h)
    \/ \E h \in Tasks : HandlerEmit(h)

\* the whole service, started on a few enumerations
Spec == Init /\ [][Next]_vars
\* startup only, over every enumeration up to MaxPorts endpoints
SpecStartup == InitStartup /\ [][StartupNext]_vars

\* the whole service under fair scheduling of the handler threads: every
\* handler thread that can take a step eventually takes it, and every read
\* but that of the first request eventually returns or raises; the read of
\* the first request may never come back
SpecLive ==
    /\ Init
    /\ [][Next]_vars
    /\ \A h \in Tasks :
          /\ WF_vars(HandlerCallValue(h))
          /\ WF_vars(HandlerEventName(h))
          /\ WF_vars(HandlerEmit(h))
    /\ \A h \in Tasks \ {1} :
          WF_vars((\E v \in Readings : HandlerReadReturns(h, v)) \/ HandlerReadRaises(h))

HandleNext ==
    \/ HandleOpen
    \/ HandleOpenFails
    \/ SensorDel
    \/ SensorDelRaises

\* AGVGuideSensor on its own: opened with any arguments, closed repeatedly
SpecHandle == InitHandle /\ [][HandleNext]_vars

\* ------------------------------------------------------------------ helpers
\* the events emitted by handler invocation h
EmittedBy(h) == {i \in DOMAIN emitted : emitted[i].by = h}
\* "AGVGuideSensorResponse", written out
AGVGuideSensorResponse ==
    <<"A", "G", "V", "G", "u", "i", "d", "e", "S", "e", "n", "s", "o", "r",
      "R", "e", "s", "p", "o", "n", "s", "e">>
\* handler invocations inside read_register
InRead == {h \in Tasks : task[h].pc = "reading"}
\* h has left sio_handler, by return or by exception
Finished(h) == task[h].pc \in {"returned", "raised"}
\* the read of h came back with a value / with an exception
ReadOk(h) == \E i \in ReadsBy(h) : busLog[i].status = "ok"
ReadFailed(h) == \E i \in ReadsBy(h) : busLog[i].status = "failed"

\* ------------------------------------------------------------------- claims
\* C1: at most one hardware register read is in flight at any instant,
\* however many request events are delivered concurrently.
C1_OneReadInFlight == Cardinality(InRead) <= 1

\* C2: a request that arrives while a read is in flight waits: its read
\* starts only when no other read is in flight, and only after the reads of
\* all requests that arrived before it have started (arrival order).
C2_QueuedInArrivalOrder ==
    [][\A h \in Tasks :
         (task[h].pc = "line72" /\ task'[h].pc = "reading")
            => /\ InRead = {}
               /\ \A g \in Tasks : g < h => task[g].pc \notin {"idle", "line72"}]_vars

\* C3: a request handled while Ready invokes read_register exactly once,
\* at register 0x28: none before the handler reaches the read, one from then
\* on whether the read succeeds or fails, and a response is only ever sent
\* after that one read returned.
C3_ExactlyOneRead ==
    /\ \A i \in DOMAIN busLog : busLog[i].register = 40
    /\ \A h \in Tasks : task[h].ready =>
          /\ Cardinality(ReadsBy(h)) =
                (IF task[h].pc \in {"idle", "line72"} THEN 0 ELSE 1)
          /\ EmittedBy(h) # {} => ReadOk(h)

\* a request handled while Ready has failed its single read and another has
\* been answered after its single read
C3_Witness ==
    \E g, h \in Tasks :
        /\ task[g].ready /\ task[g].pc = "raised" /\ ReadFailed(g)
        /\ task[h].ready /\ task[h].pc = "returned" /\ ReadOk(h)

\* C4: a request handled while Ready whose read returned v is answered by
\* exactly one event, named "AGVGuideSensorResponse", with payload
\* {value: v}; no request is answered twice.
C4_OneResponseOnSuccess ==
    \A h \in Tasks : task[h].ready =>
        /\ Cardinality(EmittedBy(h)) <= 1
        /\ \A i \in EmittedBy(h) :
              /\ emitted[i].name = AGVGuideSensorResponse
              /\ \E r \in ReadsBy(h) :
                    /\ busLog[r].status = "ok"
                    /\ emitted[i].data = [value |-> busLog[r].value]
        /\ (Ready /\ Finished(h) /\ ReadOk(h)) => Cardinality(EmittedBy(h)) = 1

\* a read that returned 0x1234 has been answered
C4_Witness ==
    \E h \in Tasks :
        /\ task[h].ready /\ task[h].pc = "returned"
        /\ \E i \in EmittedBy(h) : emitted[i].data = [value |-> 4660]

\* C5: a request whose read failed is never answered, and the request that
\* arrived right after it, once its own read returned v and its handler has
\* finished with the service still Ready, has its one response {value: v}.
C5_FailureIsolation ==
    \A h \in Tasks : (task[h].ready /\ ReadFailed(h)) =>
        /\ EmittedBy(h) = {}
        /\ (h + 1 \in Tasks /\ task[h + 1].ready /\ Ready
              /\ Finished(h + 1) /\ ReadOk(h + 1)) =>
                \E i \in DOMAIN emitted :
                    /\ EmittedBy(h + 1) = {i}
                    /\ emitted[i].name = AGVGuideSensorResponse
                    /\ \E r \in ReadsBy(h + 1) :
                          emitted[i].data = [value |-> busLog[r].value]

\* the read of request 1 failed and request 2 has been answered
C5_Witness ==
    /\ task[1].ready /\ ReadFailed(1) /\ task[1].pc = "raised"
    /\ task[2].ready /\ task[2].pc = "returned" /\ EmittedBy(2) # {}
    /\ Ready

\* C6 as stated: a read failure never leaves the handler (the exception
\* does not reach the dispatcher that called it).
C6_FailureStaysInHandler ==
    \A h \in Tasks : ~(ReadFailed(h) /\ task[h].pc = "raised")

\* C6 as the code has it: the step in which a read fails ends that handler
\* invocation by exception and changes nothing else, so the service is as
\* Ready after it as before; and the service leaves Ready only by a
\* transport disconnect or a process shutdown.
C6_FailureEndsOnlyItsHandler ==
    [][/\ \A h \in Tasks :
            (~ReadFailed(h) /\ ReadFailed(h)') =>
                /\ task'[h].pc = "raised"
                /\ \A g \in Tasks \ {h} : task'[g] = task[g]
                /\ Ready' = Ready
                /\ UNCHANGED <<pcMain, exitStatus, sensor, sio, handlers,
                               nameAttr, emitted>>
       /\ (Ready /\ ~Ready') => (sio' = "disconnected" \/ pcMain' = "killed")]_vars

\* a read has failed, its handler ended by exception, and the service is Ready
C6_Witness ==
    \E h \in Tasks : ReadFailed(h) /\ task[h].pc = "raised" /\ Ready

\* C7: once construction has failed and the error has left the constructor,
\* the serial port is not open, the transport is not connected and the
\* service is not Ready.
C7_ReleasedOnFailure ==
    pcMain = "uncaught" =>
        /\ sensor.serial # "open"
        /\ sio # "connected"
        /\ ~Ready

\* C8: when find_serial_port returned no candidate, main has exited with a
\* non-zero status and has neither opened a sensor nor created or connected
\* a transport client.
C8_NoEndpointExits ==
    (pcMain # "main82" /\ ports = <<>>) =>
        /\ pcMain = "exited"
        /\ exitStatus # None /\ exitStatus # 0
        /\ sensor = NoSensor
        /\ sio = "none"
        /\ handlers = {}

\* endpoints were enumerated, none was a candidate, and main has acted
C8_Witness == comports # <<>> /\ ports = <<>> /\ pcMain = "exited"

\* the enumerated endpoints whose descriptor contains the marker of line 32
Matching == {i \in DOMAIN comports : StrContains(<<" ", "C", "P", "2", "1", "0">>, comports[i][2])}

\* C9: the opened sensor is bound to the first candidate, and that is the
\* id of a matching endpoint that no matching endpoint's id precedes
\* lexically, wherever it stood in the enumeration.
C9_BoundToSmallest ==
    sensor.serial \in {"open", "closed"} =>
        /\ sensor.port = ports[1]
        /\ \E i \in Matching : comports[i][1] = sensor.port
        /\ \A j \in Matching : ~StrLess(comports[j][1], sensor.port)

\* the sensor is bound to an endpoint that was enumerated after a matching
\* endpoint with a lexically larger id
C9_Witness ==
    /\ sensor.serial = "open"
    /\ \E i, j \in Matching :
          i < j /\ comports[j][1] = sensor.port /\ StrLess(sensor.port, comports[i][1])

\* number of positions of s that hold x
Occurrences(s, x) == Cardinality({i \in DOMAIN s : s[i] = x})

\* the result of find_serial_port holds exactly the matching ids, each as
\* often as it was enumerated with a matching descriptor, in ascending order
ExactlyMatchingAscending ==
    /\ \A id \in PortIds :
          Occurrences(ports, id) =
              Cardinality({i \in Matching : comports[i][1] = id})
    /\ \A i, j \in DOMAIN ports : i < j => ~StrLess(ports[j], ports[i])

\* C10 as stated: find_serial_port returns exactly the matching ids in
\* ascending order, and [("COM3","X"),("COM1","CP210x"),("COM2","CP2102")]
\* gives ["COM1","COM2"].
C10_ExampleGivesCom1Com2 ==
    pcMain # "main82" =>
        /\ ExactlyMatchingAscending
        /\ comports = ExampleEnumeration => ports = <<COM1, COM2>>

\* C10 as the code has it: find_serial_port returns exactly the ids whose
\* descriptor contains " CP210" (with the leading space) in ascending
\* order, empty when none match; the example's descriptors start with
\* "CP210" and give [], and the same endpoints with " CP210x" and " CP2102"
\* give ["COM1","COM2"].
C10_FilterSort ==
    pcMain # "main82" =>
        /\ ExactlyMatchingAscending
        /\ Matching = {} => ports = <<>>
        /\ comports = ExampleEnumeration => ports = <<>>
        /\ comports = SpacedEnumeration => ports = <<COM1, COM2>>

\* find_serial_port has returned for the enumeration with the spaced
\* descriptors
C10_Witness == pcMain # "main82" /\ comports = SpacedEnumeration /\ Len(ports) = 2

\* every order in which the operating system can enumerate the endpoints of s
Reorderings(s) ==
    {[i \in DOMAIN s |-> s[p[i]]] : p \in Permutations(DOMAIN s)}

\* C11: the candidate list returned at line 82 is the one find_serial_port
\* returns for the same endpoints enumerated in any other order.
C11_SameForEveryOrder ==
    pcMain \in {"init62", "exited"} =>
        \A e \in Reorderings(comports) : find_serial_port(e) = ports

\* find_serial_port has returned two candidates that were enumerated in
\* descending order
C11_Witness ==
    /\ pcMain = "init62"
    /\ Len(ports) >= 2
    /\ \E i, j \in Matching : i < j /\ StrLess(comports[j][1], comports[i][1])

\* the runs of __del__ so far, by outcome
Closes(outcome) == {i \in DOMAIN closeLog : closeLog[i] = outcome}

\* C12 as stated: after any number of closes, also when the underlying
\* close raised, no error has reached the caller and an opened handle is
\* closed.
C12_ClosedAfterAnyClose ==
    closeLog # <<>> =>
        /\ Closes("escaped") = {}
        /\ sensor.serial # "open"

\* C12 as the code has it: no run of __del__ lets an error reach its caller,
\* however often it runs and whether or not the underlying close raised;
\* once one underlying close has returned, the handle is closed and stays
\* closed; a close that raised is not repeated and may leave the port open.
C12_CloseNeverRaises ==
    /\ Closes("escaped") = {}
    /\ Closes("closed") # {} => sensor.serial = "closed"
    /\ sensor.serial = "noinst" => Closes("closed") = {}

\* a handle was closed twice: the underlying close raised, then returned
C12_Witness ==
    /\ pcMain = "holder"
    /\ closeLog = <<"swallowed", "closed">>
    /\ sensor.serial = "closed"

\* C13: in the running process mm.Instrument has opened at most one serial
\* port, at startup, on the endpoint the sensor is bound to; serving
\* requests opens no other.
C13_OneHandleOpened ==
    /\ Len(openLog) <= 1
    /\ sensor.serial = "open" => openLog = <<sensor.port>>
    /\ (\E h \in Tasks : task[h].pc # "idle") => openLog = <<port>>

\* two requests have been handled and one port has been opened
C13_Witness ==
    /\ \A h \in Tasks : Finished(h)
    /\ Len(openLog) = 1
    /\ sensor.serial = "open"

\* C16: an opened handle has sub-address 1 when none was given and the given
\* one otherwise (0 included), and link speed 115200 when none was given and
\* the given one otherwise.
C16_DefaultsAndOverrides ==
    sensor.serial = "open" =>
        /\ openArgs.modbus_id = None => sensor.modbus_id = 1
        /\ openArgs.modbus_id # None => sensor.modbus_id = openArgs.modbus_id
        /\ openArgs.baudrate = None => sensor.baudrate = 115200
        /\ openArgs.baudrate # None => sensor.baudrate = openArgs.baudrate
        /\ sensor.port = port

\* a handle opened with sub-address 0 and no baud rate
C16_Witness ==
    /\ pcMain = "holder"
    /\ sensor.serial = "open"
    /\ openArgs = [modbus_id |-> 0, baudrate |-> None]
    /\ sensor.modbus_id = 0 /\ sensor.baudrate = 115200

\* the service has stopped: the process was terminated or main has returned
Stopped == pcMain \in {"killed", "returned"}

\* C14: once the service has stopped and nothing of the process is left to
\* run, on a normal or an abnormal exit, the serial port is closed and the
\* transport connection is released.
C14_ReleasedWhenStopped ==
    (Stopped /\ ~CanDel) =>
        /\ sensor.serial = "closed"
        /\ sio # "connected"

Handling(h) == task[h].pc \in {"line72", "reading", "line73", "line74"}

\* C17: while a handler runs, the serial port is open, the transport client
\* has been connected and the request event name is stored.
C17_InitializedWhenHandling ==
    \A h \in Tasks : Handling(h) =>
        /\ sensor.serial = "open"
        /\ sio \in {"connected", "disconnected"}
        /\ nameAttr = socketio_request_event_name

\* C18: every emitted response carries the value that the read issued by
\* the emitting handler invocation returned, and is emitted only after that
\* read has returned.
C18_OwnReading ==
    \A i \in DOMAIN emitted :
        /\ Cardinality(ReadsBy(emitted[i].by)) = 1
        /\ \A r \in ReadsBy(emitted[i].by) :
              /\ busLog[r].status = "ok"
              /\ emitted[i].data.value = busLog[r].value

\* two handlers ran interleaved and read different values: the one that
\* read first answered last
C18_Witness ==
    /\ Len(emitted) = 2 /\ Len(busLog) = 2
    /\ busLog[1].task = emitted[2].by
    /\ busLog[2].task = emitted[1].by
    /\ busLog[1].value # busLog[2].value

\* C19: a step of a request/response cycle (delivery of a request, or a
\* step of a handler, whether its read succeeds or fails) leaves the bound
\* sensor, the transport connection, the stored request event name and the
\* registered handlers as they were.
C19_CycleLeavesServiceUnchanged ==
    [][(task' # task) => UNCHANGED <<sensor, sio, nameAttr, handlers, port, openLog>>]_vars

\* one cycle has completed with a response and one with a failed read
C19_Witness ==
    \E g, h \in Tasks :
        /\ task[g].pc = "returned" /\ EmittedBy(g) # {}
        /\ task[h].pc = "raised" /\ ReadFailed(h)
        /\ sensor.serial = "open" /\ handlers = {socketio_request_event_name}

====
